---------------------------- MODULE Spec2Model ----------------------------
(***************************************************************************)
(* A model of src/app.js: the CSV ingestion and leaderboard data pipeline  *)
(* (parseCSV, fetchLeaderboardData, fetchConfigData) and the refresh       *)
(* scheduling of init.                                                     *)
(*                                                                         *)
(* A JavaScript string is modelled as the sequence of its characters, each *)
(* a one-character TLA+ string: 'a,b' is <<"a", ",", "b">> and '' is <<>>. *)
(* A JavaScript number that parseInt can return is modelled as a record    *)
(* [nan, inf, neg, mag], the magnitude mag being a decimal numeral.        *)
(***************************************************************************)
EXTENDS Integers, Sequences, FiniteSets, TLC

VARIABLES
    CONTESTANTS,   \* app.js:27  the owned contestant collection
    CONFIG,        \* app.js:21  the runtime config {deadline, currentWeek}
    CACHE_BUST,    \* app.js:16  the time read once, when the script is evaluated
    now,           \* Date.now() as the latest handler that started a fetch read it
    initPc,        \* position of init: "loaded", "awaiting" (Promise.all), "running"
    timerDue,      \* when the refresh timer of init fires next; 0 while none is set
    calls,         \* fetchLeaderboardData calls, by start order: each one's position
    cfgCall,       \* position of the fetchConfigData call
    requests,      \* the fetches issued so far, in order: [gid, at, bust]
    lastReturn,    \* what the fetchLeaderboardData call that settled last returned
    lastArrived,   \* the leaderboard response body that was projected last, and whose
    overtaken,     \* an older call's response has replaced a newer call's collection
    cfgText,       \* the config response body that was projected last
    csvText,       \* ParseSpec: the text handed to parseCSV
    records,       \* ParseSpec: what parseCSV returned
    parsed         \* ParseSpec: parseCSV has returned

vars == <<CONTESTANTS, CONFIG, CACHE_BUST, now, initPc, timerDue, calls, cfgCall,
          requests, lastReturn, lastArrived, overtaken, cfgText, csvText, records,
          parsed>>

----------------------------------------------------------------------------
(* Characters and string helpers of the JavaScript runtime.  A character    *)
(* that a TLA+ string cannot hold is written by its code point, "U+00A0".   *)

NL == "\n"
QUOTE == "\""
COMMA == ","

Digits == <<"0", "1", "2", "3", "4", "5", "6", "7", "8", "9">>

IsDigit(c) == \E i \in 1..10 : Digits[i] = c

DigitValue(c) == (CHOOSE i \in 1..10 : Digits[i] = c) - 1

\* ECMAScript WhiteSpace: TAB, VT, FF, ZWNBSP and the category Zs
WhiteSpace ==
    {"\t", "", "\f", " ", "U+00A0", "U+1680", "U+2000", "U+2001", "U+2002",
     "U+2003", "U+2004", "U+2005", "U+2006", "U+2007", "U+2008", "U+2009",
     "U+200A", "U+202F", "U+205F", "U+3000", "U+FEFF"}

\* ECMAScript LineTerminator: LF, CR, LS, PS
LineTerminator == {"\n", "\r", "U+2028", "U+2029"}

\* what String.prototype.trim strips and parseInt skips
IsSpace(c) == c \in WhiteSpace \cup LineTerminator

trimStart(s) ==
    IF \A i \in 1..Len(s) : IsSpace(s[i])
    THEN <<>>
    ELSE SubSeq(s, CHOOSE i \in 1..Len(s) :
                       ~IsSpace(s[i]) /\ \A k \in 1..(i - 1) : IsSpace(s[k]),
                Len(s))

trimEnd(s) ==
    IF \A i \in 1..Len(s) : IsSpace(s[i])
    THEN <<>>
    ELSE SubSeq(s, 1, CHOOSE i \in 1..Len(s) :
                          ~IsSpace(s[i]) /\ \A k \in (i + 1)..Len(s) : IsSpace(s[k]))

trim(s) == trimEnd(trimStart(s))

\* String.prototype.split with a one-character separator: '' splits to ['']
split(s, sep) ==
    LET seps  == {i \in 1..Len(s) : s[i] = sep}
        n     == Cardinality(seps)
        at(k) == IF k = 0 THEN 0
                 ELSE IF k = n + 1 THEN Len(s) + 1
                 ELSE CHOOSE i \in seps : Cardinality({j \in seps : j <= i}) = k
    IN  [k \in 1..(n + 1) |-> SubSeq(s, at(k - 1) + 1, at(k) - 1)] @@ <<>>

\* h.replace(/"/g, '')
stripQuotes(s) == SelectSeq(s, LAMBDA c : c # QUOTE)

\* lines[0].split(',').map(h => h.trim().replace(/"/g, ''))
headersOf(line) ==
    LET toks == split(line, COMMA)
    IN  [i \in 1..Len(toks) |-> stripQuotes(trim(toks[i]))]

\* The body of the scanner's loop over one data line: st holds the fields
\* pushed so far, the buffer `current` and the flag inQuotes.
scanChar(st, char) ==
    IF char = QUOTE
    THEN [st EXCEPT !.inQuotes = ~@]
    ELSE IF char = COMMA /\ ~st.inQuotes
         THEN [st EXCEPT !.values = Append(@, trim(st.current)), !.current = <<>>]
         ELSE [st EXCEPT !.current = Append(@, char)]

\* for (const char of line) over the characters lo..hi, in order (the range
\* is halved so that a long line does not nest deeply)
RECURSIVE scan(_, _, _, _)
scan(line, lo, hi, st) ==
    IF lo > hi THEN st
    ELSE IF lo = hi THEN scanChar(st, line[lo])
    ELSE LET mid  == lo + ((hi - lo) \div 2)
             left == scan(line, lo, mid, st)
         IN  IF left.inQuotes \in BOOLEAN THEN scan(line, mid + 1, hi, left) ELSE left

\* the fields of one data line: the loop, then values.push(current.trim())
valuesOf(line) ==
    LET st == scan(line, 1, Len(line),
                   [values |-> <<>>, current |-> <<>>, inQuotes |-> FALSE])
    IN  Append(st.values, trim(st.current))

----------------------------------------------------------------------------
(* A JavaScript object with string keys, as the sequence of its own         *)
(* properties in property order: array-index keys first in ascending        *)
(* numeric order, then the other keys in creation order.                    *)

\* Order of two digit strings of equal length
lexLess(a, b) ==
    \E i \in 1..Len(a) :
        /\ DigitValue(a[i]) < DigitValue(b[i])
        /\ \A k \in 1..(i - 1) : a[k] = b[k]

\* Numeric order of two canonical numeric strings
indexLess(a, b) == Len(a) < Len(b) \/ (Len(a) = Len(b) /\ lexLess(a, b))

\* 2^32 - 1, the first integer that is not an array index
IndexLimit == <<"4", "2", "9", "4", "9", "6", "7", "2", "9", "5">>

\* A canonical numeric string of an integer in 0 .. 2^32 - 2
IsArrayIndex(k) ==
    /\ k # <<>>
    /\ \A i \in 1..Len(k) : IsDigit(k[i])
    /\ (Len(k) > 1 => k[1] # "0")
    /\ indexLess(k, IndexLimit)

\* the key that names the prototype accessor of Object.prototype
sProto == <<"_", "_", "p", "r", "o", "t", "o", "_", "_">>

HasProp(obj, k) == \E j \in 1..Len(obj) : obj[j].key = k

\* obj[k], with '' standing for undefined (both are falsy, and parseInt of
\* either is NaN); HasProp tells them apart where it matters
GetProp(obj, k) ==
    IF HasProp(obj, k)
    THEN obj[CHOOSE j \in 1..Len(obj) : obj[j].key = k].value
    ELSE <<>>

\* obj[k] = v for a string v on an object created by {}: the key '__proto__'
\* reaches the setter of Object.prototype, which ignores a string, so that no
\* own property is created
SetProp(obj, k, v) ==
    IF k = sProto
    THEN obj
    ELSE IF HasProp(obj, k)
    THEN [j \in 1..Len(obj) |->
             IF obj[j].key = k THEN [key |-> k, value |-> v] ELSE obj[j]]
    ELSE IF IsArrayIndex(k)
         THEN LET before == SelectSeq(obj, LAMBDA p :
                                IsArrayIndex(p.key) /\ indexLess(p.key, k))
                  after  == SelectSeq(obj, LAMBDA p :
                                ~(IsArrayIndex(p.key) /\ indexLess(p.key, k)))
              IN  before \o <<[key |-> k, value |-> v]>> \o after
         ELSE Append(obj, [key |-> k, value |-> v])

\* headers.forEach((header, i) => { row[header] = values[i] || ''; })
RECURSIVE rowFrom(_, _, _, _)
rowFrom(headers, values, i, row) ==
    IF i > Len(headers)
    THEN row
    ELSE rowFrom(headers, values, i + 1,
                 SetProp(row, headers[i],
                         IF i <= Len(values) THEN values[i] ELSE <<>>))

\* a faulty variant: only the headers that have a field get a key
rowOfFieldsOnly(headers, values) ==
    rowFrom(SubSeq(headers, 1, IF Len(values) < Len(headers) THEN Len(values) ELSE Len(headers)),
            values, 1, <<>>)

rowOf(headers, values) == rowFrom(headers, values, 1, <<>>)

\* a faulty variant: the header line is also read as a data line
parseCSVKeepsHeaderLine(text) ==
    LET lines == split(trim(text), NL)
    IN  IF Len(lines) < 2
        THEN <<>>
        ELSE LET headers == headersOf(lines[1])
             IN  [j \in 1..Len(lines) |-> rowOf(headers, valuesOf(lines[j]))]

\* function parseCSV(csvText)
parseCSV(text) ==
    LET lines == split(trim(text), NL)
    IN  IF Len(lines) < 2
        THEN <<>>
        ELSE LET headers == headersOf(lines[1])
             IN  [j \in 1..(Len(lines) - 1) |->
                     rowOf(headers, valuesOf(lines[j + 1]))]

----------------------------------------------------------------------------
(* Numbers.  parseInt returns NaN, an infinity or an integer-valued double. *)
(* A number is the record [nan, inf, neg, mag]: neg is the sign (-0 has it) *)
(* and mag the magnitude of a finite number as a decimal numeral without    *)
(* leading zeros, <<"0">> for zero; mag is <<>> for NaN and the infinities. *)

NaN == [nan |-> TRUE, inf |-> FALSE, neg |-> FALSE, mag |-> <<>>]

Infinity == [nan |-> FALSE, inf |-> TRUE, neg |-> FALSE, mag |-> <<>>]

Num(mag) == [nan |-> FALSE, inf |-> FALSE, neg |-> FALSE, mag |-> mag]

Zero == Num(<<"0">>)

\* unary minus
negate(x) == IF x.nan THEN x ELSE [x EXCEPT !.neg = ~@]

\* a numeral without its leading zeros
stripZeros(ds) ==
    IF \A i \in 1..Len(ds) : ds[i] = "0"
    THEN <<"0">>
    ELSE SubSeq(ds, CHOOSE i \in 1..Len(ds) :
                        ds[i] # "0" /\ \A k \in 1..(i - 1) : ds[k] = "0",
                Len(ds))

\* floor(n / 2) of a numeral, digit by digit: a digit takes ten from an odd
\* digit before it
halve(ds) ==
    LET q == <<>> \o [i \in 1..Len(ds) |->
                 Digits[(((IF i = 1 THEN 0 ELSE DigitValue(ds[i - 1]) % 2) * 10
                              + DigitValue(ds[i])) \div 2) + 1]]
    IN  IF Len(q) > 1 /\ q[1] = "0" THEN Tail(q) ELSE q

\* 2 * n of a numeral, digit by digit: a digit takes one from a digit of five
\* or more after it
double(ds) ==
    LET carry(i) == IF i <= Len(ds) /\ DigitValue(ds[i]) >= 5 THEN 1 ELSE 0
        low == [i \in 1..Len(ds) |->
                   Digits[((2 * DigitValue(ds[i])) % 10) + carry(i + 1) + 1]]
    IN  (IF carry(1) = 1 THEN <<"1">> ELSE <<>>) \o low

\* floor(n / 2^k) and n * 2^k, by halves of k
RECURSIVE shiftRight(_, _)
shiftRight(ds, k) ==
    IF k <= 0 \/ ds = <<"0">> THEN ds
    ELSE IF k = 1 THEN halve(ds)
    ELSE LET high == shiftRight(ds, k \div 2)
         IN  IF high = <<"0">> THEN high ELSE shiftRight(high, k - (k \div 2))

RECURSIVE shiftLeft(_, _)
shiftLeft(ds, k) ==
    IF k <= 0 \/ ds = <<"0">> THEN ds
    ELSE IF k = 1 THEN double(ds)
    ELSE LET low == shiftLeft(ds, k \div 2)
         IN  IF low = <<"0">> THEN low ELSE shiftLeft(low, k - (k \div 2))

isOdd(ds) == DigitValue(ds[Len(ds)]) % 2 = 1

\* n + 1
inc(ds) ==
    IF \A i \in 1..Len(ds) : ds[i] = "9"
    THEN <<"1">> \o [i \in 1..Len(ds) |-> "0"]
    ELSE LET k == CHOOSE i \in 1..Len(ds) :
                      ds[i] # "9" /\ \A j \in (i + 1)..Len(ds) : ds[j] = "9"
         IN  [i \in 1..Len(ds) |->
                 IF i < k THEN ds[i]
                 ELSE IF i = k THEN Digits[DigitValue(ds[i]) + 2]
                 ELSE "0"]

\* n - 1 of an odd n
decOdd(ds) == [ds EXCEPT ![Len(ds)] = Digits[DigitValue(@)]]

\* 2^53 and 2^54: a double has 53 significant binary digits
TwoTo53 == <<"9", "0", "0", "7", "1", "9", "9", "2", "5", "4", "7", "4", "0", "9", "9", "2">>
TwoTo54 == <<"1", "8", "0", "1", "4", "3", "9", "8", "5", "0", "9", "4", "8", "1", "9", "8", "4">>

\* a numeral of more than 26 digits is above 2^86, one of more than 309
\* digits above 2^1024; a double is below 2^1024 = 2^54 * 2^970
ChunkDigits == 26
ChunkBits == 32
MaxSignificantDigits == 309
MaxShift == 970

\* the 54 leading binary digits m of n >= 2^53 and the number e of digits
\* after them: m = floor(n / 2^e), 2^53 <= m < 2^54
RECURSIVE leading(_, _)
leading(ds, e) ==
    IF Len(ds) > ChunkDigits
    THEN leading(shiftRight(ds, ChunkBits), e + ChunkBits)
    ELSE IF ~indexLess(ds, TwoTo54)
         THEN leading(halve(ds), e + 1)
         ELSE [m |-> ds, e |-> e]

\* The double nearest to the integer of a numeral without leading zeros, a
\* tie going to the even mantissa; Infinity from 2^1024 - 2^970 on.  The
\* mantissa is m without its last binary digit.
toDouble(ds) ==
    IF Len(ds) > MaxSignificantDigits
    THEN Infinity
    ELSE IF indexLess(ds, TwoTo53)
    THEN Num(ds)
    ELSE LET t       == leading(ds, 0)
             back    == shiftLeft(t.m, t.e)
             rounded == IF ~isOdd(t.m) THEN t.m
                        ELSE IF back # ds \/ isOdd(halve(t.m)) THEN inc(t.m)
                        ELSE decOdd(t.m)
         IN  IF t.e > MaxShift \/ (t.e = MaxShift /\ rounded = TwoTo54)
             THEN Infinity
             ELSE Num(IF rounded = t.m THEN back ELSE shiftLeft(rounded, t.e))

\* the longest prefix of decimal digits
digitPrefix(s) ==
    IF \A i \in 1..Len(s) : IsDigit(s[i])
    THEN s
    ELSE SubSeq(s, 1, (CHOOSE i \in 1..Len(s) :
                           ~IsDigit(s[i]) /\ \A k \in 1..(i - 1) : IsDigit(s[k])) - 1)

\* the value of a run of decimal digits, as a double
numeral(ds) == toDouble(stripZeros(ds))

\* parseInt(s, 10): leading white space is skipped, then an optional sign,
\* then the longest run of decimal digits; NaN when that run is empty
parseInt(s) ==
    LET t    == trimStart(s)
        neg  == t # <<>> /\ Head(t) = "-"
        body == IF t # <<>> /\ Head(t) \in {"-", "+"} THEN Tail(t) ELSE t
        ds   == digitPrefix(body)
    IN  IF ds = <<>>
        THEN NaN
        ELSE IF neg THEN negate(numeral(ds)) ELSE numeral(ds)

IsZero(x) == ~x.nan /\ ~x.inf /\ x.mag = <<"0">>

\* ToBoolean of a number: NaN, 0 and -0 are falsy
TruthyNum(x) == ~x.nan /\ ~IsZero(x)

\* x < y for two numbers, neither NaN (-0 and 0 are equal)
magLess(x, y) == ~x.inf /\ (y.inf \/ indexLess(x.mag, y.mag))

less(x, y) ==
    IF x.neg # y.neg
    THEN x.neg /\ ~(IsZero(x) /\ IsZero(y))
    ELSE IF x.neg THEN magLess(y, x) ELSE magLess(x, y)

\* x - y is NaN: an operand is NaN, or both are the same infinity
differenceIsNaN(x, y) == x.nan \/ y.nan \/ (x.inf /\ y.inf /\ x.neg = y.neg)

----------------------------------------------------------------------------
(* The string literals of the program                                       *)

sCodename == <<"C", "o", "d", "e", "n", "a", "m", "e">>
sCurrentRank == <<"C", "u", "r", "r", "e", "n", "t", " ", "R", "a", "n", "k">>
sPreviousRank == <<"P", "r", "e", "v", "i", "o", "u", "s", " ", "R", "a", "n", "k">>
sShamed == <<"S", "h", "a", "m", "e", "d">>
sTRUE == <<"T", "R", "U", "E">>
sDeadline == <<"d", "e", "a", "d", "l", "i", "n", "e">>
sCurrentWeek == <<"c", "u", "r", "r", "e", "n", "t", "_", "w", "e", "e", "k">>

----------------------------------------------------------------------------
(* Array.prototype.sort with the comparator (a, b) => a.currentRank -       *)
(* b.currentRank.  The sort is stable.  When the comparator is not a        *)
(* consistent comparator for the elements (a call of it returns NaN), the   *)
(* order is left to the engine: every arrangement of the elements is a      *)
(* possible outcome.                                                        *)

\* a faulty variant: the comparator with its operands exchanged
byCurrentRankDescending(a, b) ==
    IF differenceIsNaN(a.currentRank, b.currentRank) THEN 0
    ELSE IF less(b.currentRank, a.currentRank) THEN 0 - 1
    ELSE IF less(a.currentRank, b.currentRank) THEN 1
    ELSE 0

\* (a, b) => a.currentRank - b.currentRank, as the sort reads it: the sign of
\* the difference, NaN read as 0
byCurrentRank(a, b) ==
    IF differenceIsNaN(a.currentRank, b.currentRank) THEN 0
    ELSE IF less(a.currentRank, b.currentRank) THEN 0 - 1
    ELSE IF less(b.currentRank, a.currentRank) THEN 1
    ELSE 0

\* no call of the comparator on two elements of arr returns NaN
consistentComparator(arr) ==
    \A i, j \in 1..Len(arr) :
        ~differenceIsNaN(arr[i].currentRank, arr[j].currentRank)

\* the stable sort: an element goes after those that compare below it and
\* after those before it that compare equal to it
stableSort(arr) ==
    LET place(i) == 1 + Cardinality({j \in 1..Len(arr) :
                            \/ byCurrentRank(arr[j], arr[i]) < 0
                            \/ byCurrentRank(arr[j], arr[i]) = 0 /\ j < i})
    IN  [p \in 1..Len(arr) |-> arr[CHOOSE i \in 1..Len(arr) : place(i) = p]]

\* the arrangements of the elements of arr
arrangements(arr) ==
    {out \in [1..Len(arr) -> {arr[i] : i \in 1..Len(arr)}] :
        \A i \in 1..Len(arr) :
            Cardinality({j \in 1..Len(arr) : out[j] = arr[i]})
                = Cardinality({j \in 1..Len(arr) : arr[j] = arr[i]})}

\* the arrays that arr.sort(...) can leave
sortByCurrentRank(arr) ==
    IF consistentComparator(arr) THEN {stableSort(arr)} ELSE arrangements(arr)

----------------------------------------------------------------------------
(* fetchLeaderboardData: the projection of the parsed records               *)

\* row => row['Codename'] && row['Current Rank']
keepRow(row) == GetProp(row, sCodename) # <<>> /\ GetProp(row, sCurrentRank) # <<>>

\* a faulty variant: previousRank without the fallback to the current rank
toContestantNoFallback(row) ==
    [codename     |-> GetProp(row, sCodename),
     currentRank  |-> parseInt(GetProp(row, sCurrentRank)),
     previousRank |-> parseInt(GetProp(row, sPreviousRank)),
     shamed       |-> GetProp(row, sShamed) = sTRUE]

\* row => ({codename, currentRank, previousRank, shamed})
toContestant(row) ==
    LET cur  == parseInt(GetProp(row, sCurrentRank))
        prev == parseInt(GetProp(row, sPreviousRank))
    IN  [codename     |-> GetProp(row, sCodename),
         currentRank  |-> cur,
         previousRank |-> IF TruthyNum(prev) THEN prev ELSE cur,
         shamed       |-> GetProp(row, sShamed) = sTRUE]

\* data.filter(...).map(...), the array handed to sort
mapped(data) ==
    LET kept == SelectSeq(data, keepRow)
    IN  [i \in 1..Len(kept) |-> toContestant(kept[i])]

\* data.filter(...).map(...).sort(...): the collections it can yield
project(data) == sortByCurrentRank(mapped(data))

----------------------------------------------------------------------------
(* fetchConfigData: the projection of the parsed records                    *)

\* A JavaScript value held by CONFIG: null, undefined, a string or a number
JsNull == [kind |-> "null", str |-> <<>>, num |-> Zero]
JsUndefined == [kind |-> "undefined", str |-> <<>>, num |-> Zero]
JsString(s) == [kind |-> "string", str |-> s, num |-> Zero]
JsNumber(x) == [kind |-> "number", str |-> <<>>, num |-> x]

\* Object.values(row)[i], from 0
objectValue(row, i) ==
    IF i + 1 <= Len(row) THEN JsString(row[i + 1].value) ELSE JsUndefined

\* parseInt(value, 10) of a string or of undefined ('undefined' has no digits)
parseIntOf(v) == IF v.kind = "string" THEN parseInt(v.str) ELSE NaN

\* a faulty variant: an unparseable current_week is skipped
configRowKeepsWeek(cfg, row) ==
    LET key   == objectValue(row, 0)
        value == objectValue(row, 1)
    IN  IF key = JsString(sDeadline)
        THEN [cfg EXCEPT !.deadline = value]
        ELSE IF key = JsString(sCurrentWeek) /\ ~parseIntOf(value).nan
             THEN [cfg EXCEPT !.currentWeek = JsNumber(parseIntOf(value))]
             ELSE cfg

\* the body of data.forEach(row => { ... })
configRow(cfg, row) ==
    LET key   == objectValue(row, 0)
        value == objectValue(row, 1)
    IN  IF key = JsString(sDeadline)
        THEN [cfg EXCEPT !.deadline = value]
        ELSE IF key = JsString(sCurrentWeek)
             THEN [cfg EXCEPT !.currentWeek = JsNumber(parseIntOf(value))]
             ELSE cfg

RECURSIVE configRows(_, _, _)
configRows(cfg, data, i) ==
    IF i > Len(data) THEN cfg ELSE configRows(configRow(cfg, data[i]), data, i + 1)

\* data.forEach(...) over the whole sheet
configOf(cfg, data) == configRows(cfg, data, 1)

----------------------------------------------------------------------------
(* Bounds and inputs                                                        *)

\* fetchLeaderboardData calls per run: the initial one and the timer's
MaxRefreshes == 3
\* milliseconds between the script's evaluation and DOMContentLoaded
MaxLoadDelay == 1
\* data rows of a leaderboard sheet
MaxRows == 3
\* lines of a config sheet
MaxCfgLines == 3
\* characters of a text handed to parseCSV in ParseSpec
MaxLen == 5

\* 5 * 60 * 1000
RefreshIntervalMs == 5 * 60 * 1000

LoadTimes == {1000, 2000}

\* milliseconds from init's start of the two initial fetches to the moment
\* both calls have settled and init resumes
Latencies == {0, 500}

RECURSIVE joinWith(_, _)
joinWith(parts, sep) ==
    IF parts = <<>> THEN <<>>
    ELSE IF Len(parts) = 1 THEN parts[1]
    ELSE parts[1] \o <<sep>> \o joinWith(Tail(parts), sep)

\* all sequences over S of length lo..hi
SeqsOf(S, lo, hi) == UNION {[1..n -> S] : n \in lo..hi}

LbHeader == joinWith(<<sCodename, sCurrentRank, sPreviousRank, sShamed>>, COMMA)

LbLines ==
    { <<"a", ",", "3", ",", "1", ",">> \o sTRUE,
      <<"b", ",", "1", ",", ",", "t", "r", "u", "e">>,
      <<"c", ",", "x", ",", "2", ",">>,
      <<",", "2", ",", "2", ",">>,
      <<"d", ",", "0", ",", "-", "1", ",">> \o sTRUE }

\* a row whose Current Rank is a numeral of 310 digits, which parseInt reads
\* as Infinity
LongLine ==
    <<"e", ",">> \o [i \in 1..(MaxSignificantDigits + 1) |-> "9"] \o <<",", "1", ",">>

\* the sequences of SeqsOf(S, lo, hi) without a repeated element
DistinctSeqsOf(S, lo, hi) ==
    {s \in SeqsOf(S, lo, hi) : \A i, j \in 1..Len(s) : i # j => s[i] # s[j]}

\* sheets of two rows with a row twice, or with the long row
PairTexts ==
    { joinWith(<<LbHeader>> \o rows, NL) :
          rows \in {<<LongLine>>} \cup {<<l, l>> : l \in LbLines}
                                 \cup {<<l, LongLine>> : l \in LbLines}
                                 \cup {<<LongLine, l>> : l \in LbLines} }

\* leaderboard sheets: the header row and up to MaxRows different data rows,
\* and the sheets of PairTexts
LeaderboardTexts ==
    { joinWith(<<LbHeader>> \o rows, NL) : rows \in DistinctSeqsOf(LbLines, 0, MaxRows) }
        \cup PairTexts

\* the response bodies of the scheduling model
SchedTexts ==
    { joinWith(<<LbHeader, <<"a", ",", "1", ",", "2", ",">>, <<"b", ",", "2", ",", "1", ",">>>>, NL),
      joinWith(<<LbHeader, <<"a", ",", "2", ",", "1", ",">>, <<"b", ",", "1", ",", "2", ",">>>>, NL),
      <<"e", "r", "r", "o", "r">> }

CfgLines ==
    { <<"k", "e", "y", ",", "v", "a", "l">>,
      sDeadline \o <<",", "2", "0", "2", "5">>,
      sCurrentWeek \o <<",", "7">>,
      sCurrentWeek \o <<",", "x">>,
      <<"u", ",", "x">>,
      sProto \o <<",", "v">>,
      sDeadline }

ConfigTexts == { joinWith(ls, NL) : ls \in SeqsOf(CfgLines, 1, MaxCfgLines) }

SchedConfigTexts ==
    { joinWith(<<<<"k", ",", "v">>, sDeadline \o <<",", "2", "0", "2", "5">>,
                 sCurrentWeek \o <<",", "7">>>>, NL),
      joinWith(<<sDeadline \o <<",", "2", "0", "2", "5">>, sCurrentWeek \o <<",", "x">>>>, NL) }

ParseAlphabet == {"a", "1", ",", "\"", "\n", " ", ""}

\* sheets with a header cell __proto__
ProtoTexts ==
    { joinWith(<<h, l>>, NL) :
          h \in {sProto \o <<",", "a">>, <<"a", ",">> \o sProto, sProto},
          l \in {<<"1", ",", "2">>, <<"1">>} }

ParseTexts == SeqsOf(ParseAlphabet, 0, MaxLen) \cup ProtoTexts

----------------------------------------------------------------------------
(* The state after the script is evaluated                                  *)

CallIds == 1..MaxRefreshes

Settled(phase) == phase \in {"done", "failed"}

\* calls of fetchLeaderboardData started so far
started == Cardinality({i \in CallIds : calls[i] # "idle"})

\* the request of a fetch: the sheet asked for, when, and the cache-busting
\* parameter of the URL (LEADERBOARD_CSV_URL and CONFIG_CSV_URL are built once,
\* from CACHE_BUST)
request(gid) == [gid |-> gid, at |-> now', bust |-> CACHE_BUST]

Loaded(times) ==
    /\ CONTESTANTS = <<>>
    /\ CONFIG = [deadline |-> JsNull, currentWeek |-> JsNull]
    /\ now \in times
    /\ CACHE_BUST = now
    /\ timerDue = 0
    /\ calls = [i \in CallIds |-> "idle"]
    /\ requests = {}
    /\ lastReturn = [id |-> 0, failed |-> FALSE, value |-> <<>>]
    /\ lastArrived = [id |-> 0, text |-> <<>>]
    /\ overtaken = FALSE
    /\ cfgText = <<>>
    /\ csvText = <<>>
    /\ records = <<>>
    /\ parsed = FALSE

Init ==
    /\ Loaded(LoadTimes)
    /\ initPc = "loaded"
    /\ cfgCall = "idle"

----------------------------------------------------------------------------
(* init and the timer                                                       *)

\* document.addEventListener('DOMContentLoaded', init): init runs up to its
\* await, having started fetchConfigData and fetchLeaderboardData
init ==
    /\ initPc = "loaded"
    /\ \E d \in 0..MaxLoadDelay : now' = now + d
    /\ initPc' = "awaiting"
    /\ cfgCall' = "fetch"
    /\ calls' = [calls EXCEPT ![1] = "fetch"]
    /\ requests' = requests \cup {request("config"), request("leaderboard")}
    /\ UNCHANGED <<CONTESTANTS, CONFIG, CACHE_BUST, timerDue, lastReturn,
                   lastArrived, overtaken, cfgText, csvText, records, parsed>>

\* init resumes after await Promise.all([...]) once both calls have settled,
\* and only then registers the refresh timer: setInterval(..., 5 * 60 * 1000),
\* called some latency after init started the fetches, sets the first firing
\* one interval after that moment
initResumes(cfgCall2, calls2) ==
    IF initPc = "awaiting" /\ Settled(cfgCall2) /\ Settled(calls2[1])
    THEN /\ initPc' = "running"
         /\ \E d \in Latencies : timerDue' = now + d + RefreshIntervalMs
    ELSE UNCHANGED <<initPc, timerDue>>

\* a faulty variant: the callback skips its turn while an earlier call is pending
timerFiresUnlessPending ==
    /\ initPc = "running"
    /\ started < MaxRefreshes
    /\ \A i \in CallIds : calls[i] \notin {"fetch", "text"}
    /\ now' = timerDue
    /\ timerDue' = timerDue + RefreshIntervalMs
    /\ calls' = [calls EXCEPT ![started + 1] = "fetch"]
    /\ requests' = requests \cup {request("leaderboard")}
    /\ UNCHANGED <<CONTESTANTS, CONFIG, CACHE_BUST, initPc, cfgCall, lastReturn,
                   lastArrived, overtaken, cfgText, csvText, records, parsed>>

\* the setInterval callback of init fires when it is due, calls
\* fetchLeaderboardData, and is due again one interval later
timerFires ==
    /\ initPc = "running"
    /\ started < MaxRefreshes
    /\ now' = timerDue
    /\ timerDue' = timerDue + RefreshIntervalMs
    /\ calls' = [calls EXCEPT ![started + 1] = "fetch"]
    /\ requests' = requests \cup {request("leaderboard")}
    /\ UNCHANGED <<CONTESTANTS, CONFIG, CACHE_BUST, initPc, cfgCall, lastReturn,
                   lastArrived, overtaken, cfgText, csvText, records, parsed>>

----------------------------------------------------------------------------
(* fetchLeaderboardData                                                     *)

\* await fetch(LEADERBOARD_CSV_URL) resolves
leaderboardFetchResolves(id) ==
    /\ calls[id] = "fetch"
    /\ calls' = [calls EXCEPT ![id] = "text"]
    /\ UNCHANGED <<CONTESTANTS, CONFIG, CACHE_BUST, now, initPc, timerDue, cfgCall,
                   requests, lastReturn, lastArrived, overtaken, cfgText, csvText,
                   records, parsed>>

\* a faulty variant: the catch block returns the collection as it stands
catchReturnsCollection == CONTESTANTS

\* what the catch block returns
catchReturn == <<>>

\* a faulty variant: the catch block resets the collection
catchClears == <<>>

\* what the catch block leaves in CONTESTANTS
catchKeeps == CONTESTANTS

\* await fetch(...) or await response.text() rejects: the catch block
leaderboardRejects(id) ==
    /\ calls[id] \in {"fetch", "text"}
    /\ calls' = [calls EXCEPT ![id] = "failed"]
    /\ CONTESTANTS' = catchKeeps
    /\ lastReturn' = [id |-> id, failed |-> TRUE, value |-> catchReturn]
    /\ initResumes(cfgCall, calls')
    /\ UNCHANGED <<CONFIG, CACHE_BUST, now, cfgCall, requests, lastArrived,
                   overtaken, cfgText, csvText, records, parsed>>

\* project(parseCSV(csvText)), the collections that can come of a response
\* body, for every body of the input sets, tabulated once (f @@ <<>> is f, as
\* an explicit function)
projections ==
    [t \in LeaderboardTexts \cup SchedTexts |-> project(parseCSV(t))] @@ <<>>

\* a faulty variant: a response of a call older than the one projected last is dropped
installedIfNewest(id, text) ==
    IF id < lastArrived.id THEN {CONTESTANTS} ELSE project(parseCSV(text))

\* the collections the call can install when its own response arrives
installed(id, text) == projections[text]

\* await response.text() resolves with csvText: parse, project, replace, return
leaderboardTextResolves(id, text) ==
    /\ calls[id] = "text"
    /\ calls' = [calls EXCEPT ![id] = "done"]
    /\ CONTESTANTS' \in installed(id, text)
    /\ lastReturn' = [id |-> id, failed |-> FALSE, value |-> CONTESTANTS']
    /\ lastArrived' = [id |-> id, text |-> text]
    /\ overtaken' = (overtaken \/ (lastArrived.id > id /\ CONTESTANTS' # CONTESTANTS))
    /\ initResumes(cfgCall, calls')
    /\ UNCHANGED <<CONFIG, CACHE_BUST, now, cfgCall, requests, cfgText, csvText,
                   records, parsed>>

----------------------------------------------------------------------------
(* fetchConfigData                                                          *)

\* await fetch(CONFIG_CSV_URL) resolves
configFetchResolves ==
    /\ cfgCall = "fetch"
    /\ cfgCall' = "text"
    /\ UNCHANGED <<CONTESTANTS, CONFIG, CACHE_BUST, now, initPc, timerDue, calls,
                   requests, lastReturn, lastArrived, overtaken, cfgText, csvText,
                   records, parsed>>

\* await fetch(...) or await response.text() rejects: the catch block
configRejects ==
    /\ cfgCall \in {"fetch", "text"}
    /\ cfgCall' = "failed"
    /\ initResumes(cfgCall', calls)
    /\ UNCHANGED <<CONTESTANTS, CONFIG, CACHE_BUST, now, calls, requests, lastReturn,
                   lastArrived, overtaken, cfgText, csvText, records, parsed>>

\* await response.text() resolves with csvText: parse, then data.forEach
configTextResolves(text) ==
    /\ cfgCall = "text"
    /\ cfgCall' = "done"
    /\ CONFIG' = configOf(CONFIG, parseCSV(text))
    /\ cfgText' = text
    /\ initResumes(cfgCall', calls)
    /\ UNCHANGED <<CONTESTANTS, CACHE_BUST, now, calls, requests, lastReturn,
                   lastArrived, overtaken, csvText, records, parsed>>

----------------------------------------------------------------------------
(* Spec: the page, from the script's evaluation on                          *)

Next ==
    \/ init
    \/ timerFires
    \/ \E id \in CallIds : leaderboardFetchResolves(id)
    \/ \E id \in CallIds : leaderboardRejects(id)
    \/ \E id \in CallIds, text \in SchedTexts : leaderboardTextResolves(id, text)
    \/ configFetchResolves
    \/ configRejects
    \/ \E text \in SchedConfigTexts : configTextResolves(text)

Spec == Init /\ [][Next]_vars

\* The event loop runs a due timer callback: no handler of the page blocks it
\* (every handler returns, and a pending fetch only suspends its own call).  No
\* fairness is assumed of the network: a fetch may never settle.
FairSpec == Spec /\ WF_vars(init) /\ WF_vars(timerFires)

----------------------------------------------------------------------------
(* LeaderboardSpec: fetchLeaderboardData called again and again by a caller *)
(* that awaits each call, over the sheets of LeaderboardTexts               *)

LeaderboardInit ==
    /\ Loaded({1000})
    /\ initPc = "loaded"
    /\ cfgCall = "idle"

\* await fetchLeaderboardData(), once more: the call issues its fetch at
\* once; the clock stands still in this specification
refreshCalled ==
    /\ calls[1] \in {"idle", "done", "failed"}
    /\ now' = now
    /\ calls' = [calls EXCEPT ![1] = "fetch"]
    /\ requests' = requests \cup {request("leaderboard")}
    /\ UNCHANGED <<CONTESTANTS, CONFIG, CACHE_BUST, initPc, timerDue, cfgCall,
                   lastReturn, lastArrived, overtaken, cfgText, csvText, records,
                   parsed>>

LeaderboardNext ==
    \/ refreshCalled
    \/ leaderboardFetchResolves(1)
    \/ leaderboardRejects(1)
    \/ \E text \in LeaderboardTexts : leaderboardTextResolves(1, text)

LeaderboardSpec == LeaderboardInit /\ [][LeaderboardNext]_vars

----------------------------------------------------------------------------
(* ConfigSpec: init's call of fetchConfigData over the sheets of ConfigTexts *)

ConfigNext ==
    \/ init
    \/ configFetchResolves
    \/ configRejects
    \/ \E text \in ConfigTexts : configTextResolves(text)

ConfigSpec == Init /\ [][ConfigNext]_vars

----------------------------------------------------------------------------
(* ParseSpec: parseCSV applied to every text of ParseTexts                  *)

ParseInit ==
    /\ CONTESTANTS = <<>>
    /\ CONFIG = [deadline |-> JsNull, currentWeek |-> JsNull]
    /\ now = 1000
    /\ CACHE_BUST = now
    /\ timerDue = 0
    /\ calls = [i \in CallIds |-> "idle"]
    /\ requests = {}
    /\ lastReturn = [id |-> 0, failed |-> FALSE, value |-> <<>>]
    /\ lastArrived = [id |-> 0, text |-> <<>>]
    /\ overtaken = FALSE
    /\ cfgText = <<>>
    /\ initPc = "loaded"
    /\ cfgCall = "idle"
    /\ csvText \in ParseTexts
    /\ records = <<>>
    /\ parsed = FALSE

\* const data = parseCSV(csvText)
parse ==
    /\ ~parsed
    /\ records' = parseCSV(csvText)
    /\ parsed' = TRUE
    /\ UNCHANGED <<CONTESTANTS, CONFIG, CACHE_BUST, now, initPc, timerDue, calls,
                   cfgCall, requests, lastReturn, lastArrived, overtaken, cfgText,
                   csvText>>

ParseNext == parse

ParseSpec == ParseInit /\ [][ParseNext]_vars

----------------------------------------------------------------------------
(* Properties                                                               *)

\* C1: a call of fetchLeaderboardData that fails leaves the owned collection
\* equal by value to what it was before the failure, whatever calls succeeded
\* or failed before it.
C1_FailedRefreshKeepsCollection ==
    [][\A id \in CallIds :
          (calls[id] # "failed" /\ calls'[id] = "failed")
              => CONTESTANTS' = CONTESTANTS]_vars

\* a call failed after another had installed a non-empty collection
C1_Witness ==
    /\ \E id \in CallIds : calls[id] = "failed" /\ lastArrived.id \notin {0, id}
    /\ lastReturn.failed
    /\ CONTESTANTS # <<>>

\* C2, as claimed: the value a failed call returns is the collection owned
\* before the call (which the failure leaves in place).
C2_Original == lastReturn.failed => lastReturn.value = CONTESTANTS

\* C2, amended: the value a failed call returns is the empty sequence, also
\* when a non-empty collection is owned.
C2_FailedRefreshReturnsEmpty == lastReturn.failed => lastReturn.value = <<>>

\* a call failed while a non-empty collection was owned
C2_Witness == lastReturn.failed /\ CONTESTANTS # <<>> /\ lastArrived.id # 0

----------------------------------------------------------------------------

\* the records of the config sheet projected last, and each record's key/value
cfgData == parseCSV(cfgText)

isWeekRow(row) == objectValue(row, 0) = JsString(sCurrentWeek)

\* the index of the last current_week record, 0 when there is none
lastWeekRow ==
    IF \E i \in 1..Len(cfgData) : isWeekRow(cfgData[i])
    THEN CHOOSE i \in 1..Len(cfgData) :
             isWeekRow(cfgData[i]) /\ \A j \in (i + 1)..Len(cfgData) : ~isWeekRow(cfgData[j])
    ELSE 0

\* currentWeek as the claim has it: an unparseable value is skipped
RECURSIVE claimedWeek(_, _)
claimedWeek(week, i) ==
    IF i > Len(cfgData)
    THEN week
    ELSE LET n == parseIntOf(objectValue(cfgData[i], 1))
         IN  claimedWeek(IF isWeekRow(cfgData[i]) /\ ~n.nan THEN JsNumber(n) ELSE week,
                         i + 1)

\* C3, as claimed: a current_week record whose value does not parse leaves
\* currentWeek at the value it had before that record (null at first).
C3_Original == cfgCall = "done" => CONFIG.currentWeek = claimedWeek(JsNull, 1)

\* C3, amended: when the last current_week record of the sheet has a value
\* that does not parse, currentWeek is NaN after the refresh; the value it
\* had before that record is lost.
C3_UnparseableWeekStoresNaN ==
    (/\ cfgCall = "done"
     /\ lastWeekRow # 0
     /\ parseIntOf(objectValue(cfgData[lastWeekRow], 1)).nan)
        => CONFIG.currentWeek = JsNumber(NaN)

\* an integer week was stored by an earlier record and then replaced by NaN
C3_Witness ==
    /\ cfgCall = "done"
    /\ CONFIG.currentWeek = JsNumber(NaN)
    /\ \E i \in 1..Len(cfgData) :
          /\ i < lastWeekRow
          /\ isWeekRow(cfgData[i])
          /\ ~parseIntOf(objectValue(cfgData[i], 1)).nan

----------------------------------------------------------------------------

\* the lines of the config sheet, and columns A and B of a line
cfgLines == split(trim(cfgText), NL)

columnA(line) == valuesOf(line)[1]

columnB(line) == IF Len(valuesOf(line)) >= 2 THEN valuesOf(line)[2] ELSE <<>>

\* the last line among from..Len(cfgLines) whose column A is key, 0 if none
lastLineWith(key, from) ==
    IF \E i \in from..Len(cfgLines) : columnA(cfgLines[i]) = key
    THEN CHOOSE i \in from..Len(cfgLines) :
             /\ columnA(cfgLines[i]) = key
             /\ \A j \in (i + 1)..Len(cfgLines) : columnA(cfgLines[j]) # key
    ELSE 0

\* CONFIG when the lines from..Len(cfgLines) are read as key/value pairs
configFromLines(from) ==
    LET d == lastLineWith(sDeadline, from)
        w == lastLineWith(sCurrentWeek, from)
    IN  [deadline    |-> IF d = 0 THEN JsNull ELSE JsString(columnB(cfgLines[d])),
         currentWeek |-> IF w = 0 THEN JsNull
                         ELSE JsNumber(parseInt(columnB(cfgLines[w])))]

\* the first line has two or more cells, all different, none an array index
\* and none __proto__
plainHeader ==
    LET hs == headersOf(cfgLines[1])
    IN  /\ Len(hs) >= 2
        /\ \A i, j \in 1..Len(hs) : i # j => hs[i] # hs[j]
        /\ \A i \in 1..Len(hs) : ~IsArrayIndex(hs[i]) /\ hs[i] # sProto

\* every line of the sheet has a key cell and a value cell
keyValueSheet == \A i \in 1..Len(cfgLines) : Len(valuesOf(cfgLines[i])) >= 2

\* C4, as claimed: the sheet is unheaded, every line of a sheet of key/value
\* rows, the first included, is read as a key/value pair.
C4_Original == (cfgCall = "done" /\ keyValueSheet) => CONFIG = configFromLines(1)

\* C4, amended: the first line is the header row and is never read as a
\* key/value pair; when its cells are two or more, all different and none an
\* array-index numeral or __proto__, the lines after it are read as key/value
\* pairs from columns A and B, the last deadline and the last current_week
\* winning.
C4_RowsAfterHeaderAreKeyValue ==
    (cfgCall = "done" /\ plainHeader) => CONFIG = configFromLines(2)

\* a first line current_week,x was skipped while a later deadline was stored
C4_Witness ==
    /\ cfgCall = "done"
    /\ plainHeader
    /\ columnA(cfgLines[1]) = sCurrentWeek
    /\ CONFIG.currentWeek = JsNull
    /\ CONFIG.deadline.kind = "string"
    /\ CONFIG.deadline.str # <<>>

----------------------------------------------------------------------------

\* the ranks of the owned collection at i and j are in order
inOrder(i, j) == ~less(CONTESTANTS[j].currentRank, CONTESTANTS[i].currentRank)

\* a rank that is neither NaN nor an infinity
IsFinite(x) == ~x.nan /\ ~x.inf

\* C5, as claimed: the owned collection is always in non-decreasing order of
\* currentRank (a NaN rank is not held against the order of the others).
C5_Original ==
    \A i, j \in 1..Len(CONTESTANTS) :
        (i < j /\ ~CONTESTANTS[i].currentRank.nan /\ ~CONTESTANTS[j].currentRank.nan)
            => inOrder(i, j)

\* C5, amended: the owned collection is in non-decreasing order of
\* currentRank whenever every kept record's Current Rank parsed to a finite
\* number.
C5_SortedWhenRanksAreFinite ==
    (\A i \in 1..Len(CONTESTANTS) : IsFinite(CONTESTANTS[i].currentRank))
        => \A i, j \in 1..Len(CONTESTANTS) : i < j => inOrder(i, j)

\* three finite ranks that the sheet had out of order, kept over a failed call
C5_Witness ==
    /\ Len(CONTESTANTS) >= 3
    /\ \A i \in 1..Len(CONTESTANTS) : IsFinite(CONTESTANTS[i].currentRank)
    /\ CONTESTANTS # mapped(parseCSV(lastArrived.text))
    /\ lastReturn.failed

----------------------------------------------------------------------------

\* a positive integer
IsPositive(x) == IsFinite(x) /\ ~x.neg /\ ~IsZero(x)

\* the most digits of a numeral that is surely below 2^1024
MaxFiniteDigits == 308

\* a run of decimal digits with at most MaxFiniteDigits after its leading zeros
IsUnsignedNumeral(s) ==
    /\ s # <<>>
    /\ \A i \in 1..Len(s) : IsDigit(s[i])
    /\ Len(stripZeros(s)) <= MaxFiniteDigits

IsPositiveNumeral(s) == IsUnsignedNumeral(s) /\ \E i \in 1..Len(s) : s[i] # "0"

\* every kept record of the sheet has a positive numeral as Current Rank and
\* nothing or an unsigned numeral as Previous Rank
numeralSheet(text) ==
    LET data == parseCSV(text)
    IN  \A i \in 1..Len(data) :
            keepRow(data[i]) =>
                /\ IsPositiveNumeral(GetProp(data[i], sCurrentRank))
                /\ \/ GetProp(data[i], sPreviousRank) = <<>>
                   \/ IsUnsignedNumeral(GetProp(data[i], sPreviousRank))

\* C6, as claimed: every owned Contestant has a non-empty codename and
\* positive integers as currentRank and previousRank, whatever the sheet.
C6_Original ==
    \A i \in 1..Len(CONTESTANTS) :
        /\ CONTESTANTS[i].codename # <<>>
        /\ IsPositive(CONTESTANTS[i].currentRank)
        /\ IsPositive(CONTESTANTS[i].previousRank)

\* C6, amended: every owned Contestant has a non-empty codename; its ranks
\* are positive integers when every kept record of the sheet has a positive
\* unsigned numeral of at most 308 significant digits as Current Rank and
\* nothing or an unsigned numeral of at most 308 significant digits as
\* Previous Rank.
C6_RanksPositiveForNumeralSheets ==
    \A i \in 1..Len(CONTESTANTS) :
        /\ CONTESTANTS[i].codename # <<>>
        /\ numeralSheet(lastArrived.text) =>
               /\ IsPositive(CONTESTANTS[i].currentRank)
               /\ IsPositive(CONTESTANTS[i].previousRank)

\* a numeral sheet with a record whose empty Previous Rank fell back to the
\* current rank and a record whose Previous Rank was read
C6_Witness ==
    /\ numeralSheet(lastArrived.text)
    /\ \E i, j \in 1..Len(CONTESTANTS) :
          /\ CONTESTANTS[i].previousRank # CONTESTANTS[i].currentRank
          /\ CONTESTANTS[j].previousRank = CONTESTANTS[j].currentRank
          /\ CONTESTANTS[j].codename = <<"b">>

----------------------------------------------------------------------------

\* C7, as claimed: the cache-busting parameter of a request is read from the
\* clock at that call, so requests made at different times differ in it.
C7_Original ==
    \A r1, r2 \in requests : r1.at # r2.at => r1.bust # r2.bust

----------------------------------------------------------------------------

\* a call of fetchLeaderboardData is pending
pending(id) == calls[id] \in {"fetch", "text"}

\* C8, as claimed: after any refresh, the initial one included, the timer
\* starts the next one, whether or not earlier fetches ever settle.
C8_Original ==
    \A k \in 1..(MaxRefreshes - 1) : (started = k) ~> (started > k)

\* C8, amended: once init has registered the timer, which it does only after
\* both initial fetches have settled, the timer starts the next refresh
\* whether or not the fetches of earlier refreshes ever settle.
C8_TimerFiresOnceRegistered ==
    \A k \in 1..(MaxRefreshes - 1) :
        (initPc = "running" /\ started = k) ~> (started > k)

\* the timer started a refresh while a timer-started one was still pending
C8_Witness ==
    \E i, j \in CallIds : 1 < i /\ i < j /\ pending(i) /\ calls[j] # "idle"

----------------------------------------------------------------------------

\* C10: the owned collection is the projection of the response that arrived
\* last, installed whole, whichever call it answers; so a response to an
\* older call replaces the collection of a newer call.
C10_LastArrivalWins ==
    lastArrived.id # 0 => CONTESTANTS \in project(parseCSV(lastArrived.text))

\* both of two overlapping calls are done and the older one's response,
\* arriving last, replaced the newer one's different collection
C10_Witness ==
    /\ overtaken
    /\ \A id \in CallIds : ~pending(id)
    /\ \E id \in CallIds : id > lastArrived.id /\ calls[id] = "done"
    /\ calls[lastArrived.id] = "done"

----------------------------------------------------------------------------

parseLines == split(trim(csvText), NL)

parseHeaders == headersOf(parseLines[1])

\* number of lines of the trimmed text: one more than its line breaks
lineCount ==
    Cardinality({i \in 1..Len(trim(csvText)) : trim(csvText)[i] = NL}) + 1

\* the field a record holds for the header cell at position i: that of the
\* last cell with the same name; '' when the line has no such field
fieldFor(line, i) ==
    LET last == CHOOSE k \in 1..Len(parseHeaders) :
                    /\ parseHeaders[k] = parseHeaders[i]
                    /\ \A m \in (k + 1)..Len(parseHeaders) : parseHeaders[m] # parseHeaders[i]
        vs   == valuesOf(line)
    IN  IF last <= Len(vs) THEN vs[last] ELSE <<>>

\* every record holds, for each header cell among those at the positions I,
\* the field of its line
recordsHold(I) ==
    \A j \in 1..Len(records) :
        \A i \in I :
            /\ HasProp(records[j], parseHeaders[i])
            /\ GetProp(records[j], parseHeaders[i]) = fieldFor(parseLines[j + 1], i)

\* the positions of the header cells other than __proto__
ownHeaders == {i \in 1..Len(parseHeaders) : parseHeaders[i] # sProto}

\* C9, as claimed: for a text of two or more lines parseCSV returns one
\* record per line after the first, in line order, each with as many keys as
\* the header line has comma-separated cells, '' for a missing field.
C9_Original ==
    (parsed /\ lineCount >= 2) =>
        /\ Len(records) = lineCount - 1
        /\ \A j \in 1..Len(records) : Len(records[j]) = Len(parseHeaders)
        /\ recordsHold(1..Len(parseHeaders))

\* C9, amended: the same, with as many keys as the header line has distinct
\* cells (after trimming and removing quotes) other than __proto__: a
\* repeated header is one key, holding the field of its last occurrence, and
\* a header __proto__ makes no key.
C9_OneRecordPerLineDistinctKeys ==
    (parsed /\ lineCount >= 2) =>
        /\ Len(records) = lineCount - 1
        /\ \A j \in 1..Len(records) :
               Len(records[j]) = Cardinality({parseHeaders[i] : i \in ownHeaders})
        /\ recordsHold(ownHeaders)

\* a header line with a repeated cell, and a record short of a field
C9_Witness ==
    /\ parsed
    /\ lineCount >= 2
    /\ Len(records[1]) < Len(parseHeaders)
    /\ Len(valuesOf(parseLines[2])) < Len(parseHeaders)
    /\ ownHeaders = 1..Len(parseHeaders)

============================================================================
